---- MODULE Spec2Model ----
(***************************************************************************)
(* A model of spice2sound (src/spice2sound.py): one run of the pipeline    *)
(* that decodes a WAV file, writes an excitation table and an augmented   *)
(* circuit into a temporary directory, runs the external simulator, reads  *)
(* the response table back, scales it and writes a mono 16-bit WAV file.  *)
(*                                                                         *)
(* Numbers.  The program computes in binary floating point; the model      *)
(* computes in exact arithmetic.  A decoded sample is the rational         *)
(* raw / (2^(8*sample_width) - 1); an RMS-scaled sample is kept as a sign   *)
(* and the rational square of its magnitude, so that no square root is    *)
(* ever approximated.  Quantities that exceed TLC's 32-bit integers are    *)
(* naturals in base 2^15, least significant limb first (<<>> is zero).     *)
(* Frame rates are powers of two, for which 1/framerate and the timestamp  *)
(* sums of the excitation writer are exact in floating point as well.      *)
(***************************************************************************)
EXTENDS Integers, Sequences, FiniteSets, TLC

(***************************************************************************)
(* Bounds of the model.                                                    *)
(***************************************************************************)
\* frames per channel of the input WAV file: 1..MaxFrames
MaxFrames == 2
\* lines of the response table the simulator may write: 0..MaxLines
MaxLines == 3
\* lines of an impulse response the simulator may write
MaxImpulseLines == 5
\* largest denominator of the samples p/q handed to the encoder on its own
MaxDen == 12
\* the excitation writer on its own is probed at frames d * 10^k + r, k <= MaxStampExp
MaxStampExp == 7

\* an absent value (Python's None, a file that does not exist) is <<>>, a
\* present one <<x>>
Nothing == <<>>
Some(x) == <<x>>

(***************************************************************************)
(* Naturals in base 2^15.                                                  *)
(***************************************************************************)
Base == 2 ^ 15

RECURSIVE BFromInt(_)
BFromInt(n) == IF n = 0 THEN <<>> ELSE <<n % Base>> \o BFromInt(n \div Base)

RECURSIVE BAddC(_, _, _)
BAddC(a, b, c) ==
    IF Len(a) = 0 /\ Len(b) = 0 THEN (IF c = 0 THEN <<>> ELSE <<c>>)
    ELSE LET x == (IF Len(a) = 0 THEN 0 ELSE Head(a))
                  + (IF Len(b) = 0 THEN 0 ELSE Head(b)) + c
         IN  <<x % Base>> \o BAddC(IF Len(a) = 0 THEN a ELSE Tail(a),
                                   IF Len(b) = 0 THEN b ELSE Tail(b),
                                   x \div Base)

BAdd(a, b) == BAddC(a, b, 0)

\* a * d + c for one limb d
RECURSIVE BMulLimb(_, _, _)
BMulLimb(a, d, c) ==
    IF Len(a) = 0 \/ d = 0 THEN (IF c = 0 THEN <<>> ELSE <<c>>)
    ELSE LET x == Head(a) * d + c
         IN  <<x % Base>> \o BMulLimb(Tail(a), d, x \div Base)

RECURSIVE BMul(_, _)
BMul(a, b) ==
    IF Len(a) = 0 \/ Len(b) = 0 THEN <<>>
    ELSE LET rest == BMul(a, Tail(b))
         IN  BAdd(BMulLimb(a, Head(b), 0),
                  IF Len(rest) = 0 THEN rest ELSE <<0>> \o rest)

RECURSIVE BLeqFrom(_, _, _)
BLeqFrom(a, b, i) ==
    IF i = 0 THEN TRUE
    ELSE IF a[i] # b[i] THEN a[i] < b[i]
    ELSE BLeqFrom(a, b, i - 1)

BLeq(a, b) == IF Len(a) # Len(b) THEN Len(a) < Len(b) ELSE BLeqFrom(a, b, Len(a))

BLess(a, b) == ~BLeq(b, a)

\* a - 1 for a > 0
RECURSIVE BPred(_)
BPred(a) ==
    IF Head(a) > 0
    THEN (IF Len(a) = 1 /\ Head(a) = 1 THEN <<>> ELSE <<Head(a) - 1>> \o Tail(a))
    ELSE <<Base - 1>> \o BPred(Tail(a))

\* 2^k
RECURSIVE BPow2(_)
BPow2(k) == IF k < 15 THEN <<2 ^ k>> ELSE <<0>> \o BPow2(k - 15)

\* the largest q in lo..hi with q * b <= a, given that lo * b <= a
RECURSIVE BQuot(_, _, _, _)
BQuot(a, b, lo, hi) ==
    IF lo = hi THEN lo
    ELSE LET mid == (lo + hi + 1) \div 2
         IN  IF BLeq(BMul(BFromInt(mid), b), a)
             THEN BQuot(a, b, mid, hi)
             ELSE BQuot(a, b, lo, mid - 1)

\* the largest y in lo..hi with y^2 * den <= num, given that lo^2 * den <= num
RECURSIVE BRoot(_, _, _, _)
BRoot(num, den, lo, hi) ==
    IF lo = hi THEN lo
    ELSE LET mid == (lo + hi + 1) \div 2
         IN  IF BLeq(BMul(BFromInt(mid * mid), den), num)
             THEN BRoot(num, den, mid, hi)
             ELSE BRoot(num, den, lo, mid - 1)

Abs(x) == IF x < 0 THEN -x ELSE x
Sign(x) == IF x < 0 THEN -1 ELSE IF x > 0 THEN 1 ELSE 0

RECURSIVE Pow10(_)
Pow10(k) == IF k = 0 THEN 1 ELSE 10 * Pow10(k - 1)

\* a / b for a >= 0, b > 0, rounded to the nearest integer, ties to even
RoundHalfEven(a, b) ==
    LET q == a \div b
        r == a % b
    IN  IF 2 * r < b THEN q
        ELSE IF 2 * r > b THEN q + 1
        ELSE IF q % 2 = 0 THEN q ELSE q + 1

(***************************************************************************)
(* Decoding the input audio (lines 35-51).                                  *)
(***************************************************************************)
\* the struct format character of a sample width
SampleFormat(sample_width) ==
    IF sample_width = 1 THEN "b"
    ELSE IF sample_width = 2 THEN "h"
    ELSE IF sample_width = 4 THEN "i"
    ELSE "unsupported"

\* 2 ** (8 * sample_width) - 1
Divisor(sample_width) == BPred(BPow2(8 * sample_width))

\* one unpacked integer divided by the divisor: the rational num / den
DecodeSample(raw, sample_width) == [num |-> raw, den |-> Divisor(sample_width)]

DecodeValues(frames, sample_width) ==
    [k \in 1..Len(frames) |-> DecodeSample(frames[k], sample_width)]

\* reshape(-1, channel_cnt): row i holds channel_cnt consecutive values
Reshape(values, channel_cnt) ==
    [i \in 1..(Len(values) \div channel_cnt) |->
        SubSeq(values, (i - 1) * channel_cnt + 1, i * channel_cnt)]

\* .T of a matrix with channel_cnt columns
Transpose(rows, channel_cnt) ==
    [c \in 1..channel_cnt |-> [i \in 1..Len(rows) |-> rows[i][c]]]

RECURSIVE SumSquares(_)
SumSquares(row) ==
    IF Len(row) = 0 THEN <<>>
    ELSE LET m == BFromInt(Abs(Head(row).num))
         IN  BAdd(BMul(m, m), SumSquares(Tail(row)))

\* mean(v ** 2) of one row of decoded values: the square of its RMS
MeanSquare(row) ==
    [num |-> SumSquares(row),
     den |-> BMul(BFromInt(Len(row)), BMul(Head(row).den, Head(row).den))]

RatLeq(a, b) == BLeq(BMul(a.num, b.den), BMul(b.num, a.den))

\* np.max(rms(v)): the largest row RMS, kept as its square
MaxMeanSquare(rows) ==
    LET ms == [c \in 1..Len(rows) |-> MeanSquare(rows[c])]
    IN  ms[CHOOSE c \in 1..Len(rows) : \A d \in 1..Len(rows) : RatLeq(ms[d], ms[c])]

(***************************************************************************)
(* The simulation horizon (lines 32-33).  Times are rationals <<num, den>>. *)
(***************************************************************************)
TimeLeq(a, b) == a[1] * b[2] <= b[1] * a[2]
TimeEq(a, b) == a[1] * b[2] = b[1] * a[2]

MaxSimTime(frame_cnt, framerate) == <<frame_cnt, framerate>>

\* "not sim_time" holds of None and of 0
Falsy(sim_time) == sim_time = Nothing \/ sim_time[1] = 0

\* min(sim_time, max_sim_time) returns its first argument unless the second is smaller
SimTime(sim_time, frame_cnt, framerate) ==
    IF Falsy(sim_time) THEN MaxSimTime(frame_cnt, framerate)
    ELSE IF TimeLeq(<<sim_time[1], 1>>, MaxSimTime(frame_cnt, framerate))
         THEN <<sim_time[1], 1>>
         ELSE MaxSimTime(frame_cnt, framerate)

(***************************************************************************)
(* The excitation table (lines 76-81).                                      *)
(***************************************************************************)
\* '{:.6e}' of num / den >= 0: a 7-digit mantissa mant (one digit before the
\* point) and the decimal exponent exp, written mant/10^6 * 10^exp
Exponent(num, den) ==
    IF num >= den
    THEN CHOOSE e \in 0..9 : Pow10(e) <= num \div den /\ (e = 9 \/ num \div den < Pow10(e + 1))
    ELSE -(CHOOSE e \in 1..9 : den <= num * Pow10(e))

Format6e(num, den) ==
    IF num = 0 THEN [mant |-> 0, exp |-> 0]
    ELSE LET e == Exponent(num, den)
             m == IF e <= 6 THEN RoundHalfEven(num * Pow10(6 - e), den)
                  ELSE RoundHalfEven(num, den * Pow10(e - 6))
         IN  IF m = Pow10(7) THEN [mant |-> Pow10(6), exp |-> e + 1]
             ELSE [mant |-> m, exp |-> e]

\* '{:.4f}' of a decoded value: the number of ten-thousandths, rounded to the
\* nearest (no decoded value lies half way: the divisor is odd)
Format4f(value) ==
    LET a == BMulLimb(BFromInt(Abs(value.num)), 2 * Pow10(4), 0)
        q == BQuot(BAdd(a, value.den), BMulLimb(value.den, 2, 0), 0, Pow10(4))
    IN  Sign(value.num) * q

\* the row of input_audio_values the writer iterates over (0-based, line 79)
ChannelIndexBad(channel_cnt, channel) ==
    IF channel_cnt > 1 /\ channel # "left" THEN 1 ELSE 0

ChannelIndex(channel_cnt, channel) ==
    IF channel_cnt > 1 /\ channel = "right" THEN 1 ELSE 0

\* the timestamp of line k: t has been incremented k - 1 times by 1 / framerate
Timestamp(k, framerate) == Format6e(k - 1, framerate)

ExcitationLines(row, framerate) ==
    [k \in 1..Len(row) |-> [t |-> Timestamp(k, framerate), v |-> Format4f(row[k])]]

(***************************************************************************)
(* The state of one run.                                                   *)
(***************************************************************************)
VARIABLES
    pc,                  \* the statement the run is about to execute
    ret,                 \* how the run ended: "0", "1", "raised", or "running"
    args,                \* the call's arguments and the two existence tests
    wav,                 \* the input WAV file: its parameters and its samples
    sim_time,            \* the local sim_time after line 33
    input_audio_values,  \* [channel][frame] after line 50
    input_audio_rms,     \* after line 51, as the square of the RMS
    tmp_dir,             \* whether the temporary directory exists
    tmp_input_values,    \* the excitation table in it
    tmp_spice_circuit,   \* the augmented circuit in it
    tmp_output_values,   \* the response table in it
    sim_status,          \* the exit status os.system returned (never stored by the code)
    sim_lines,           \* the response table as the simulator wrote it
    output_values,       \* the local output_values
    output_audio_file,   \* the file at output_audio_file_path
    probe,               \* the input of an operation studied on its own
    probe_out            \* its result

vars == <<pc, ret, args, wav, sim_time, input_audio_values, input_audio_rms,
          tmp_dir, tmp_input_values, tmp_spice_circuit, tmp_output_values,
          sim_status, sim_lines, output_values, output_audio_file, probe, probe_out>>

tmp_vars == <<tmp_dir, tmp_input_values, tmp_spice_circuit, tmp_output_values>>
in_vars == <<args, wav>>
decoded_vars == <<sim_time, input_audio_values, input_audio_rms>>
sim_vars == <<sim_status, sim_lines>>
probe_vars == <<probe, probe_out>>

(***************************************************************************)
(* The inputs of a run.                                                    *)
(***************************************************************************)
\* the integers a frame of the given width is drawn from: the most negative
\* sample (for 32 bits the most negative one whose magnitude TLC can hold) and 1
SampleValues(sample_width) ==
    IF sample_width = 4 THEN {-2147483647, 1}
    ELSE IF sample_width \in {1, 2} THEN {-(2 ^ (8 * sample_width - 1)), 1}
    ELSE {1}

SeqsOfLen(S, n) == [1..n -> S]

WavFiles(widths, channel_cnts, framerates, frame_cnts) ==
    UNION { { [channel_cnt |-> c, sample_width |-> w, framerate |-> r, frames |-> f] :
                f \in SeqsOfLen(SampleValues(w), c * n) } :
            <<w, c, r, n>> \in widths \X channel_cnts \X framerates \X frame_cnts }

Arguments(channels, sim_times) ==
    [input_exists : BOOLEAN, circuit_exists : BOOLEAN,
     channel : channels, sim_time : sim_times]

\* a run whose input files are missing never opens them: one WAV file stands for all
InitRun(wavs, arguments) ==
    /\ args \in arguments
    /\ wav \in wavs
    /\ (args.input_exists /\ args.circuit_exists)
          \/ ( /\ wav = CHOOSE f \in wavs : TRUE
               /\ args.channel = "None"
               /\ args.sim_time = Nothing )
    /\ pc = "validate"
    /\ ret = "running"
    /\ sim_time = Nothing
    /\ input_audio_values = <<>>
    /\ input_audio_rms = Nothing
    /\ tmp_dir = FALSE
    /\ tmp_input_values = Nothing
    /\ tmp_spice_circuit = Nothing
    /\ tmp_output_values = Nothing
    /\ sim_status = Nothing
    /\ sim_lines = Nothing
    /\ output_values = Nothing
    /\ output_audio_file = Nothing
    /\ probe = Nothing
    /\ probe_out = Nothing

(***************************************************************************)
(* The run up to the simulator (lines 19-107).                             *)
(***************************************************************************)
Return(status) == pc' = "done" /\ ret' = status

\* lines 19-25
Validate ==
    /\ pc = "validate"
    /\ IF args.input_exists /\ args.circuit_exists
       THEN pc' = "read" /\ ret' = ret
       ELSE Return("1")
    /\ UNCHANGED <<in_vars, decoded_vars, tmp_vars, sim_vars, output_values,
                   output_audio_file, probe_vars>>

\* lines 27-52
ReadAudio ==
    /\ pc = "read"
    /\ LET frame_cnt == Len(wav.frames) \div wav.channel_cnt
       IN  /\ sim_time' = Some(SimTime(args.sim_time, frame_cnt, wav.framerate))
           /\ IF SampleFormat(wav.sample_width) = "unsupported"
              THEN /\ Return("1")
                   /\ UNCHANGED <<input_audio_values, input_audio_rms>>
              ELSE /\ input_audio_values' =
                          Transpose(Reshape(DecodeValues(wav.frames, wav.sample_width),
                                            wav.channel_cnt),
                                    wav.channel_cnt)
                   /\ input_audio_rms' = Some(MaxMeanSquare(input_audio_values'))
                   /\ pc' = "mktemp"
                   /\ ret' = ret
    /\ UNCHANGED <<in_vars, tmp_vars, sim_vars, output_values, output_audio_file,
                   probe_vars>>

\* lines 70-74
OpenTmpDir ==
    /\ pc = "mktemp"
    /\ tmp_dir' = TRUE
    /\ pc' = "excitation"
    /\ UNCHANGED <<ret, in_vars, decoded_vars, tmp_input_values, tmp_spice_circuit,
                   tmp_output_values, sim_vars, output_values, output_audio_file,
                   probe_vars>>

\* lines 76-81
WriteExcitation ==
    /\ pc = "excitation"
    /\ tmp_input_values' =
           Some(ExcitationLines(
                    input_audio_values[ChannelIndex(wav.channel_cnt, args.channel) + 1],
                    wav.framerate))
    /\ pc' = "circuit"
    /\ UNCHANGED <<ret, in_vars, decoded_vars, tmp_dir, tmp_spice_circuit,
                   tmp_output_values, sim_vars, output_values, output_audio_file,
                   probe_vars>>

\* lines 83-107: of the text appended to the circuit the model keeps the 'tran' line
WriteCircuit ==
    /\ pc = "circuit"
    /\ tmp_spice_circuit' = Some([tran_step |-> <<1, wav.framerate>>,
                                  tran_stop |-> sim_time[1]])
    /\ pc' = "simulate"
    /\ UNCHANGED <<ret, in_vars, decoded_vars, tmp_dir, tmp_input_values,
                   tmp_output_values, sim_vars, output_values, output_audio_file,
                   probe_vars>>

NextFront == Validate \/ ReadAudio \/ OpenTmpDir \/ WriteExcitation \/ WriteCircuit

SampleWidths == {1, 2, 3, 4}
ChannelCounts == {1, 2}
FrameRates == {1, 2, 4}
ChannelArgs == {"None", "left", "right"}
SimTimeArgs == {Nothing, Some(0), Some(1), Some(3)}

InitFront ==
    InitRun(WavFiles(SampleWidths, ChannelCounts, FrameRates, 1..MaxFrames),
            Arguments(ChannelArgs, SimTimeArgs))

SpecFront == InitFront /\ [][NextFront]_vars

(***************************************************************************)
(* The simulator and the response table (lines 109-114).                   *)
(***************************************************************************)
\* the voltages the simulator may report
ResponseValues == {-1, 0, 2}

\* a line of the response table is the sequence of its fields: a time and a
\* voltage, or nothing a voltage can be read from
ResponseLines == {<<>>} \cup { <<0, v>> : v \in ResponseValues }

\* an impulse response: a peak on the second line, zero everywhere else
ImpulseTable(n) == [k \in 1..n |-> IF k = 2 THEN <<0, 2>> ELSE <<0, 0>>]

\* no table, every table of up to MaxLines lines, and the impulse responses of
\* up to MaxImpulseLines lines
ResponseTables ==
    {Nothing}
    \cup { Some(t) : t \in UNION { SeqsOfLen(ResponseLines, n) : n \in 0..MaxLines } }
    \cup { Some(ImpulseTable(n)) : n \in 2..MaxImpulseLines }

\* line 110: the simulator is opaque; its exit status is discarded
RunSimulation ==
    /\ pc = "simulate"
    /\ \E status \in {0, 1}, table \in ResponseTables :
          /\ sim_status' = Some(status)
          /\ sim_lines' = table
          /\ tmp_output_values' = table
    /\ pc' = "response"
    /\ UNCHANGED <<ret, in_vars, decoded_vars, tmp_dir, tmp_input_values,
                   tmp_spice_circuit, output_values, output_audio_file, probe_vars>>

\* float(line.split()[1]) succeeds
Parses(line) == Len(line) >= 2

\* leaving the with block of line 71, normally or by an exception, removes the
\* directory and everything in it: <<tmp_dir, the three files>> afterwards
TemporaryDirectoryExitLeaky(raised, dir, files) ==
    IF raised THEN <<dir, files[1], files[2], files[3]>>
    ELSE <<FALSE, Nothing, Nothing, Nothing>>

TemporaryDirectoryExit(raised, dir, files) == <<FALSE, Nothing, Nothing, Nothing>>

\* lines 112-114, and the end of the with block
ReadResponse ==
    /\ pc = "response"
    /\ LET readable == /\ tmp_output_values # Nothing
                       /\ \A k \in 1..Len(tmp_output_values[1]) :
                              Parses(tmp_output_values[1][k])
       IN  /\ IF readable
              THEN /\ output_values' =
                          Some([k \in 1..Len(tmp_output_values[1]) |->
                                   tmp_output_values[1][k][2]])
                   /\ pc' = "normalize"
                   /\ ret' = ret
              ELSE /\ Return("raised")
                   /\ UNCHANGED output_values
           /\ LET after == TemporaryDirectoryExit(
                                ~readable, tmp_dir,
                                <<tmp_input_values, tmp_spice_circuit, tmp_output_values>>)
              IN  /\ tmp_dir' = after[1]
                  /\ tmp_input_values' = after[2]
                  /\ tmp_spice_circuit' = after[3]
                  /\ tmp_output_values' = after[4]
    /\ UNCHANGED <<in_vars, decoded_vars, sim_vars, output_audio_file, probe_vars>>

(***************************************************************************)
(* Scaling the response (lines 116-124).  A scaled value is a record: nan, *)
(* or the number sign * sqrt(num / den).                                    *)
(***************************************************************************)
\* output_values.pop(0)
DiscardLast(values) == SubSeq(values, 1, Len(values) - 1)

DiscardFirst(values) == Tail(values)

RECURSIVE MaxAbs(_)
MaxAbs(values) ==
    IF Len(values) = 0 THEN 0
    ELSE LET rest == MaxAbs(Tail(values))
         IN  IF Abs(Head(values)) > rest THEN Abs(Head(values)) ELSE rest

RECURSIVE SumSq(_)
SumSq(values) ==
    IF Len(values) = 0 THEN 0 ELSE Head(values) * Head(values) + SumSq(Tail(values))

\* line 120: every value over the peak; a peak of 0 makes every quotient 0/0
PeakNormalize(values) ==
    LET peak == MaxAbs(values)
    IN  [k \in 1..Len(values) |-> [nan |-> peak = 0, num |-> values[k], den |-> peak]]

\* line 123: times input_audio_rms over the RMS of the peak-normalized values
RmsScale(normalized, input_ms) ==
    LET m == Len(normalized)
        peak == normalized[1].den
        sq == SumSq([k \in 1..m |-> normalized[k].num])
    IN  [k \in 1..m |->
            IF normalized[k].nan
            THEN [nan |-> TRUE, sign |-> 0, num |-> <<>>, den |-> <<>>]
            ELSE [nan |-> FALSE,
                  sign |-> Sign(normalized[k].num),
                  num |-> BMul(BFromInt(normalized[k].num * normalized[k].num * m * peak * peak),
                               input_ms.num),
                  den |-> BMul(BFromInt(peak * peak * sq), input_ms.den)]]

\* lines 116-124
Normalize ==
    /\ pc = "normalize"
    /\ IF Len(output_values[1]) = 0
       THEN Return("raised") /\ UNCHANGED output_values     \* pop from empty list
       ELSE IF Len(DiscardFirst(output_values[1])) = 0
       THEN Return("raised") /\ UNCHANGED output_values     \* np.max of an empty array
       ELSE /\ output_values' =
                   Some(RmsScale(PeakNormalize(DiscardFirst(output_values[1])),
                                 input_audio_rms[1]))
            /\ pc' = "open_output"
            /\ ret' = ret
    /\ UNCHANGED <<in_vars, decoded_vars, tmp_vars, sim_vars, output_audio_file,
                   probe_vars>>

(***************************************************************************)
(* Writing the output file (lines 126-135).                                *)
(***************************************************************************)
PcmScale == 32767

PcmScaleSquared == BFromInt(PcmScale * PcmScale)

\* the largest magnitude struct's 'h' packs, for a value of the given sign
PackLimit(sign) == IF sign < 0 THEN 32768 ELSE 32767

\* trunc(|value| * 32767) <= PackLimit
Fits(value) ==
    LET next == BFromInt(PackLimit(value.sign) + 1)
    IN  BLess(BMul(PcmScaleSquared, value.num), BMul(BMul(next, next), value.den))

\* (value * 32767) to the nearest integer, for a value that fits
AsIntRounded(value) ==
    LET y == BRoot(BMul(PcmScaleSquared, value.num), value.den, 0, PackLimit(value.sign))
        odd == BFromInt(2 * y + 1)
    IN  IF BLeq(BMul(BMul(odd, odd), value.den),
                BMulLimb(BMul(PcmScaleSquared, value.num), 4, 0))
        THEN value.sign * (y + 1)
        ELSE value.sign * y

\* (value * 32767).astype(int), for a value that fits: the fraction is dropped
AsInt(value) ==
    value.sign * BRoot(BMul(PcmScaleSquared, value.num), value.den,
                       0, PackLimit(value.sign))

\* lines 127-129
OpenOutput ==
    /\ pc = "open_output"
    /\ output_audio_file' = Some([nchannels |-> 1, sampwidth |-> 2,
                                  framerate |-> wav.framerate, frames |-> <<>>])
    /\ pc' = "write_frames"
    /\ UNCHANGED <<ret, in_vars, decoded_vars, tmp_vars, sim_vars, output_values,
                   probe_vars>>

\* what astype(int) makes of nan is undefined: the smallest 64-bit integer on
\* some builds, 0 on others
NanCasts == {"min", "zero"}

\* lines 130-135: struct.pack raises when a value does not fit, and the file,
\* already created, is closed with no frames
WriteFrames ==
    /\ pc = "write_frames"
    /\ LET values == output_values[1]
           m == Len(values)
           anynan == \E k \in 1..m : values[k].nan
           fit == \A k \in 1..m : ~values[k].nan => Fits(values[k])
           ints == [v \in {values[k] : k \in 1..m} |->
                       IF v.nan \/ ~fit THEN 0 ELSE AsInt(v)]
       IN  \E nan_as \in (IF anynan THEN NanCasts ELSE {"none"}) :
              IF fit /\ nan_as # "min"
              THEN /\ output_audio_file' =
                          Some([output_audio_file[1] EXCEPT
                                   !.frames = [k \in 1..m |-> ints[values[k]]]])
                   /\ Return("0")
              ELSE /\ UNCHANGED output_audio_file
                   /\ Return("raised")
    /\ UNCHANGED <<in_vars, decoded_vars, tmp_vars, sim_vars, output_values, probe_vars>>

Next ==
    \/ Validate
    \/ ReadAudio
    \/ OpenTmpDir
    \/ WriteExcitation
    \/ WriteCircuit
    \/ RunSimulation
    \/ ReadResponse
    \/ Normalize
    \/ OpenOutput
    \/ WriteFrames

\* the whole run is explored for one-frame inputs and default arguments
Init ==
    InitRun(WavFiles(SampleWidths, ChannelCounts, {1, 2}, {1}),
            Arguments({"None"}, {Nothing}))

Spec == Init /\ [][Next]_vars

(***************************************************************************)
(* Two operations on their own: the timestamps of two consecutive lines of *)
(* the excitation table far into a long input, and the encoding of one     *)
(* rational sample p / q.                                                    *)
(***************************************************************************)
InitProbe(inputs) ==
    /\ probe \in { Some(i) : i \in inputs }
    /\ probe_out = Nothing
    /\ pc = "probe"
    /\ ret = "running"
    /\ args = [input_exists |-> FALSE, circuit_exists |-> FALSE,
               channel |-> "None", sim_time |-> Nothing]
    /\ wav = [channel_cnt |-> 1, sample_width |-> 1, framerate |-> 1, frames |-> <<1>>]
    /\ sim_time = Nothing
    /\ input_audio_values = <<>>
    /\ input_audio_rms = Nothing
    /\ tmp_dir = FALSE
    /\ tmp_input_values = Nothing
    /\ tmp_spice_circuit = Nothing
    /\ tmp_output_values = Nothing
    /\ sim_status = Nothing
    /\ sim_lines = Nothing
    /\ output_values = Nothing
    /\ output_audio_file = Nothing

run_vars == <<ret, in_vars, decoded_vars, tmp_vars, sim_vars, output_values,
              output_audio_file>>

StampLines ==
    { d * Pow10(k) + r : <<d, k, r>> \in (1..9) \X (0..MaxStampExp) \X {0, 1} }

\* lines 80-81 for the lines numbered line and line + 1
Stamp ==
    /\ pc = "probe"
    /\ probe_out' = Some(<<Timestamp(probe[1].line, probe[1].framerate),
                           Timestamp(probe[1].line + 1, probe[1].framerate)>>)
    /\ pc' = "probed"
    /\ UNCHANGED <<probe, run_vars>>

InitStamp == InitProbe([framerate : FrameRates, line : StampLines])

NextStamp == Stamp

SpecStamp == InitStamp /\ [][NextStamp]_vars

\* the sample p / q as a scaled value
Sample(p, q) == [nan |-> FALSE, sign |-> Sign(p), num |-> BFromInt(p * p),
                 den |-> BFromInt(q * q)]

\* line 132 for one sample
Encode ==
    /\ pc = "probe"
    /\ probe_out' = Some([fits |-> Fits(Sample(probe[1].p, probe[1].q)),
                          int |-> AsInt(Sample(probe[1].p, probe[1].q))])
    /\ pc' = "probed"
    /\ UNCHANGED <<probe, run_vars>>

InitEncode ==
    InitProbe({ [p |-> p, q |-> q] : <<p, q>> \in
                  { x \in (-MaxDen..MaxDen) \X (1..MaxDen) : Abs(x[1]) <= x[2] } })

NextEncode == Encode

SpecEncode == InitEncode /\ [][NextEncode]_vars

(***************************************************************************)
(* Properties.                                                             *)
(***************************************************************************)
FrameCount == Len(wav.frames) \div wav.channel_cnt

\* C1: when a run that created the temporary directory has ended, by a return
\* or by an exception, the directory and the three files in it do not exist
C1_TmpDirRemoved ==
    pc = "done" =>
        /\ ~tmp_dir
        /\ tmp_input_values = Nothing
        /\ tmp_spice_circuit = Nothing
        /\ tmp_output_values = Nothing

\* a run whose simulator failed and wrote no response table has ended by an
\* exception, and the directory is gone
C1_Witness ==
    /\ pc = "done"
    /\ ret = "raised"
    /\ sim_status = Some(1)
    /\ sim_lines = Nothing
    /\ ~tmp_dir
    /\ tmp_input_values = Nothing

\* C2: a run that ended in a failure has not created the output audio file
C2_NoOutputOnFailure ==
    (pc = "done" /\ ret # "0") => output_audio_file = Nothing

\* C3: a run whose simulator returned a failure status does not return 0 and
\* writes no output audio file
C3_SimulatorFailureSurfaces ==
    (pc = "done" /\ sim_status = Some(1)) => (ret # "0" /\ output_audio_file = Nothing)

\* C4: the stop time of the 'tran' line is min(sim_time, frame_cnt / framerate)
\* for every sim_time given, frame_cnt / framerate when none is given, and never
\* more than frame_cnt / framerate
C4_HorizonIsMin ==
    tmp_spice_circuit # Nothing =>
        LET duration == <<FrameCount, wav.framerate>>
            stop == tmp_spice_circuit[1].tran_stop
        IN  /\ args.sim_time # Nothing =>
                  TimeEq(stop, IF args.sim_time[1] * wav.framerate <= FrameCount
                               THEN <<args.sim_time[1], 1>>
                               ELSE duration)
            /\ args.sim_time = Nothing => TimeEq(stop, duration)
            /\ TimeLeq(stop, duration)

StampLess(a, b) ==
    IF a.mant = 0 THEN b.mant > 0
    ELSE b.mant > 0 /\ (a.exp < b.exp \/ (a.exp = b.exp /\ a.mant < b.mant))

\* C6: the excitation table has one line per frame of the selected channel, and
\* the timestamp written on each line is below the one written on the next
C6_TimestampsIncrease ==
    /\ tmp_input_values # Nothing => Len(tmp_input_values[1]) = FrameCount
    /\ (pc = "probed" /\ probe[1] \in [framerate : FrameRates, line : StampLines]) =>
          StampLess(probe_out[1][1], probe_out[1][2])

\* C7: the output file of a successful run is mono, 16-bit, at the input's
\* frame rate, has one frame less than the response table has lines, and its
\* frame k follows the voltage of line k + 1: it has that voltage's sign or is
\* 0, and a larger voltage never gives a smaller frame
C7_FirstLineDropped ==
    (pc = "done" /\ ret = "0") =>
        LET file == output_audio_file[1]
            volt == [k \in 1..Len(sim_lines[1]) |-> sim_lines[1][k][2]]
            n == Len(file.frames)
        IN  /\ file.nchannels = 1
            /\ file.sampwidth = 2
            /\ file.framerate = wav.framerate
            /\ n = Len(volt) - 1
            /\ \A k \in 1..n : file.frames[k] * volt[k + 1] >= 0
            /\ \A j, k \in 1..n :
                  Abs(volt[j + 1]) <= Abs(volt[k + 1]) =>
                      Abs(file.frames[j]) <= Abs(file.frames[k])

\* a response of three lines gave two frames, the first positive and the
\* second negative
C7_Witness ==
    /\ pc = "done"
    /\ ret = "0"
    /\ Len(sim_lines[1]) = 3
    /\ sim_lines[1][1][2] = 0
    /\ Len(output_audio_file[1].frames) = 2
    /\ output_audio_file[1].frames[1] > 0
    /\ output_audio_file[1].frames[2] < 0

\* C8: the most negative integer of an 8- or 16-bit sample decodes to -1
C8_MinimumDecodesToMinusOne ==
    \A c \in 1..Len(input_audio_values) :
        \A i \in 1..Len(input_audio_values[c]) :
            LET value == input_audio_values[c][i]
            IN  ( /\ wav.sample_width \in {1, 2}
                  /\ value.num = -(2 ^ (8 * wav.sample_width - 1)) )
                    => BFromInt(-value.num) = value.den

Scaled == pc \in {"open_output", "write_frames"} \/ (pc = "done" /\ output_audio_file # Nothing)

\* C9: every scaled value of a response that is not silent has magnitude at
\* most 1, and packing such values never fails
C9_ScaledWithinUnit ==
    (Scaled /\ \A k \in 1..Len(output_values[1]) : ~output_values[1][k].nan) =>
        /\ \A k \in 1..Len(output_values[1]) :
              BLeq(output_values[1][k].num, output_values[1][k].den)
        /\ pc = "done" => ret = "0"

Encoded == pc = "probed" /\ probe[1] \in [p : Int, q : Int]

\* C10 as stated: the value written for the sample p / q is p * 32767 / q
\* rounded to the nearest integer
C10_EncodesRounded ==
    Encoded =>
        probe_out[1].int =
            Sign(probe[1].p) * RoundHalfEven(Abs(probe[1].p) * PcmScale, probe[1].q)

\* C10 as amended: the value written for the sample p / q in [-1, 1] is
\* p * 32767 / q with its fraction dropped (truncated toward zero), for
\* positive and negative samples alike, and it always fits in 16 bits
C10_EncodesTruncated ==
    Encoded =>
        /\ probe_out[1].fits
        /\ probe_out[1].int = Sign(probe[1].p) * ((Abs(probe[1].p) * PcmScale) \div probe[1].q)

\* the sample -1/2 is written as -16383
C10_Witness ==
    /\ Encoded
    /\ probe[1].p = -1
    /\ probe[1].q = 2
    /\ probe_out[1].int = -16383

====
